---------------------------- MODULE Spec2Model ----------------------------
(***************************************************************************)
(* A model of h_utils.py: expand_tn (the telephone-number pattern          *)
(* expander, a Python generator), get_input (the interactive prompt loop)  *)
(* and ip_in_range / ip_version (IP range membership).                     *)
(*                                                                         *)
(* Strings are sequences of one-character strings.  A generator object is  *)
(* a frame record; one request for its next element (next(gen)) is one     *)
(* action.                                                                 *)
(***************************************************************************)
EXTENDS Integers, Sequences, FiniteSets, TLC

VARIABLES gens, gi, ipc

vars == <<gens, gi, ipc>>

-----------------------------------------------------------------------------
(* Bounds of the model.                                                    *)

\* Patterns are concatenations of at most MaxPieces pieces.
MaxPieces == 2
\* Digits written in patterns are 0..MaxDigit (the wildcard X still means 0..9).
MaxDigit == 2
\* How many requests are made to a generator after its body has ended.
MaxLate == 2

-----------------------------------------------------------------------------
(* Characters and conversions.                                             *)

None == "None"

DigitChars == <<"0", "1", "2", "3", "4", "5", "6", "7", "8", "9">>

\* The character class [0-9] of FULL_NUMBER_RE.
IsDigit(c) == \E i \in 1..Len(DigitChars) : DigitChars[i] = c

\* int(c) for a one-digit string.
int(c) == (CHOOSE i \in 1..Len(DigitChars) : DigitChars[i] = c) - 1

\* f"{xx}" for an integer xx (here always 0..9, one character; a negative or
\* larger number would print with more characters).
RECURSIVE Fmt(_)
Fmt(xx) ==
    IF xx < 0 THEN <<"-">> \o Fmt(0 - xx)
    ELSE IF xx < 10 THEN <<DigitChars[xx + 1]>>
    ELSE Fmt(xx \div 10) \o <<DigitChars[(xx % 10) + 1]>>

\* list(range(start, stop)): empty when stop <= start.
PyRange(start, stop) == [i \in 1..(stop - start) |-> start + i - 1]

-----------------------------------------------------------------------------
(* expand_tn: tokenizing the pattern.                                      *)

\* One attempt of FULL_NUMBER_RE = \[([0-9])-([0-9])\]|(X)|([0-9]) at position
\* pos of tn: the alternatives are tried in the order written.  The result is
\* the match's groups and its end position (end 0: no match here).
MatchAtIgnoreCase(tn, pos) ==
    IF /\ pos + 4 <= Len(tn)
       /\ tn[pos] = "["
       /\ IsDigit(tn[pos + 1])
       /\ tn[pos + 2] = "-"
       /\ IsDigit(tn[pos + 3])
       /\ tn[pos + 4] = "]"
    THEN [groups |-> <<tn[pos + 1], tn[pos + 3], None, None>>, end |-> pos + 5]
    ELSE IF tn[pos] = "X" \/ tn[pos] = "x"
    THEN [groups |-> <<None, None, "X", None>>, end |-> pos + 1]
    ELSE IF IsDigit(tn[pos])
    THEN [groups |-> <<None, None, None, tn[pos]>>, end |-> pos + 1]
    ELSE [groups |-> <<>>, end |-> 0]

MatchAt(tn, pos) ==
    IF /\ pos + 4 <= Len(tn)
       /\ tn[pos] = "["
       /\ IsDigit(tn[pos + 1])
       /\ tn[pos + 2] = "-"
       /\ IsDigit(tn[pos + 3])
       /\ tn[pos + 4] = "]"
    THEN [groups |-> <<tn[pos + 1], tn[pos + 3], None, None>>, end |-> pos + 5]
    ELSE IF tn[pos] = "X"
    THEN [groups |-> <<None, None, "X", None>>, end |-> pos + 1]
    ELSE IF IsDigit(tn[pos])
    THEN [groups |-> <<None, None, None, tn[pos]>>, end |-> pos + 1]
    ELSE [groups |-> <<>>, end |-> 0]

IsMatch(mt) == mt.end # 0

\* re.finditer(FULL_NUMBER_RE, tn): the non-overlapping matches from left to
\* right; a position where no alternative matches is passed over.
RECURSIVE FindIterFrom(_, _)
FindIterFrom(tn, pos) ==
    IF pos > Len(tn) THEN <<>>
    ELSE LET mt == MatchAt(tn, pos)
         IN  IF IsMatch(mt)
             THEN <<[groups |-> mt.groups, start |-> pos, end |-> mt.end]>>
                      \o FindIterFrom(tn, mt.end)
             ELSE FindIterFrom(tn, pos + 1)

finditer(tn) == FindIterFrom(tn, 1)

\* m = [m for m in match_groups if m is not None]
NotNoneGroups(match_groups) == SelectSeq(match_groups, LAMBDA x : x # None)

\* The start and stop chosen for one match.
MatchBoundsNoPlusOne(match_groups) ==
    LET m == NotNoneGroups(match_groups)
    IN  IF Len(m) = 1
        THEN IF m[1] = "X"
             THEN [start |-> 0, stop |-> 10]
             ELSE [start |-> int(m[1]), stop |-> int(m[1]) + 1]
        ELSE [start |-> int(m[1]), stop |-> int(m[2])]

MatchBoundsSorted(match_groups) ==
    LET m == NotNoneGroups(match_groups)
    IN  IF Len(m) = 1
        THEN IF m[1] = "X"
             THEN [start |-> 0, stop |-> 10]
             ELSE [start |-> int(m[1]), stop |-> int(m[1]) + 1]
        ELSE IF int(m[1]) <= int(m[2])
             THEN [start |-> int(m[1]), stop |-> int(m[2]) + 1]
             ELSE [start |-> int(m[2]), stop |-> int(m[1]) + 1]

MatchBounds(match_groups) ==
    LET m == NotNoneGroups(match_groups)
    IN  IF Len(m) = 1
        THEN IF m[1] = "X"
             THEN [start |-> 0, stop |-> 10]
             ELSE [start |-> int(m[1]), stop |-> int(m[1]) + 1]
        ELSE [start |-> int(m[1]), stop |-> int(m[2]) + 1]

\* ranges.append(list(range(start, stop))), once per match.
AppendRangeSingleOnly(ranges, match_groups) ==
    LET b == MatchBounds(match_groups)
    IN  IF Len(NotNoneGroups(match_groups)) = 1
        THEN Append(ranges, PyRange(b.start, b.stop))
        ELSE ranges

AppendRange(ranges, match_groups) ==
    LET b == MatchBounds(match_groups)
    IN  Append(ranges, PyRange(b.start, b.stop))

\* The for loop over the matches, from the list ranges holds at its start.
RECURSIVE ParseLoop(_, _, _)
ParseLoop(ranges, matches, k) ==
    IF k > Len(matches) THEN ranges
    ELSE ParseLoop(AppendRange(ranges, matches[k].groups), matches, k + 1)

-----------------------------------------------------------------------------
(* itertools.product over the pools in ranges, as the generator drives it. *)

\* The first request: no element when some pool is empty, else the first
\* element of every pool (the empty tuple when there is no pool).
ProductFirstNoPools(pools) ==
    IF Len(pools) = 0 \/ \E i \in 1..Len(pools) : Len(pools[i]) = 0
    THEN [stopped |-> TRUE, indices |-> <<>>]
    ELSE [stopped |-> FALSE, indices |-> [i \in 1..Len(pools) |-> 1]]

ProductFirst(pools) ==
    IF \E i \in 1..Len(pools) : Len(pools[i]) = 0
    THEN [stopped |-> TRUE, indices |-> <<>>]
    ELSE [stopped |-> FALSE, indices |-> [i \in 1..Len(pools) |-> 1]]

\* A later request: advance the rightmost index that can advance and reset
\* those to its right; stop when none can.
RECURSIVE ProductCarry(_, _, _)
ProductCarry(pools, indices, i) ==
    IF i = 0 THEN [stopped |-> TRUE, indices |-> indices]
    ELSE IF indices[i] < Len(pools[i])
    THEN [stopped |-> FALSE, indices |-> [indices EXCEPT ![i] = @ + 1]]
    ELSE ProductCarry(pools, [indices EXCEPT ![i] = 1], i - 1)

RECURSIVE ProductCarryLeft(_, _, _)
ProductCarryLeft(pools, indices, i) ==
    IF i > Len(pools) THEN [stopped |-> TRUE, indices |-> indices]
    ELSE IF indices[i] < Len(pools[i])
    THEN [stopped |-> FALSE, indices |-> [indices EXCEPT ![i] = @ + 1]]
    ELSE ProductCarryLeft(pools, [indices EXCEPT ![i] = 1], i + 1)

ProductNextLeftFastest(pools, indices) == ProductCarryLeft(pools, indices, 1)

ProductNext(pools, indices) == ProductCarry(pools, indices, Len(pools))

\* The tuple x the product is at.
ProductTuple(pools, indices) == [i \in 1..Len(pools) |-> pools[i][indices[i]]]

\* single_expanded_number: the concatenation of f"{xx}" for xx in x.
RECURSIVE JoinFrom(_, _)
JoinFrom(x, i) == IF i > Len(x) THEN <<>> ELSE Fmt(x[i]) \o JoinFrom(x, i + 1)

single_expanded_number(x) == JoinFrom(x, 1)

-----------------------------------------------------------------------------
(* Values the three parts are idle at while another part runs.             *)

GiIdle == [pc |-> "idle"]
IpIdle == [pc |-> "idle"]
NoGens == [g \in {} |-> 0]

-----------------------------------------------------------------------------
(* expand_tn: the generator objects.                                       *)

\* What a request for the next element gave: a string, or the end-of-sequence
\* signal (StopIteration).
NoRequest == [kind |-> "none", value |-> <<>>]
Yielded(str) == [kind |-> "yield", value |-> str]
StopIteration == [kind |-> "StopIteration", value |-> <<>>]

\* expand_tn(tn): calling the generator function runs none of its body; it
\* gives a generator whose frame holds tn.  out records what the generator has
\* yielded so far, late how many requests it got after its body ended.
NewFrame(tn) ==
    [tn |-> tn, status |-> "created", ranges |-> <<>>,
     indices |-> <<>>, last |-> NoRequest, out |-> <<>>, late |-> 0]

\* ranges = []: a new list in every frame.
SharedRanges(g) ==
    LET others == {h \in DOMAIN gens : h # g /\ gens[h].status # "created"}
    IN  IF others = {} THEN <<>> ELSE gens[CHOOSE h \in others : TRUE].ranges

NewRanges(g) == <<>>

\* The frame after the product gave p (its stop, or the indices of a tuple).
AfterProduct(f, ranges, p) ==
    IF p.stopped
    THEN [f EXCEPT !.status = "finished", !.ranges = ranges,
                   !.last = StopIteration]
    ELSE LET str == single_expanded_number(ProductTuple(ranges, p.indices))
         IN  [f EXCEPT !.status = "suspended", !.ranges = ranges,
                       !.indices = p.indices, !.last = Yielded(str),
                       !.out = Append(@, str)]

\* The first next(gen): the body runs from its start to the first yield, or to
\* its end.
FirstNext(g) ==
    /\ gens[g].status = "created"
    /\ LET ranges == ParseLoop(NewRanges(g), finditer(gens[g].tn), 1)
       IN  gens' = [gens EXCEPT ![g] = AfterProduct(@, ranges, ProductFirst(ranges))]
    /\ UNCHANGED <<gi, ipc>>

\* A later next(gen): the body resumes after the yield.
ResumeNext(g) ==
    /\ gens[g].status = "suspended"
    /\ gens' = [gens EXCEPT ![g] =
                  AfterProduct(@, @.ranges, ProductNext(@.ranges, @.indices))]
    /\ UNCHANGED <<gi, ipc>>

\* next(gen) on a generator whose body has ended.
ExhaustedNextRestart(g) ==
    /\ gens[g].status = "finished"
    /\ gens[g].late < MaxLate
    /\ LET ranges == ParseLoop(NewRanges(g), finditer(gens[g].tn), 1)
       IN  gens' = [gens EXCEPT ![g] =
                      AfterProduct([@ EXCEPT !.late = @ + 1, !.out = <<>>],
                                   ranges, ProductFirst(ranges))]
    /\ UNCHANGED <<gi, ipc>>

ExhaustedNext(g) ==
    /\ gens[g].status = "finished"
    /\ gens[g].late < MaxLate
    /\ gens' = [gens EXCEPT ![g].last = StopIteration, ![g].late = @ + 1]
    /\ UNCHANGED <<gi, ipc>>

\* The caller drops the generator once it has been asked, wherever it stands,
\* and calls expand_tn on the same pattern again.
Recall(g) ==
    /\ gens[g].status # "created"
    /\ gens' = [gens EXCEPT ![g] = NewFrame(@.tn)]
    /\ UNCHANGED <<gi, ipc>>

-----------------------------------------------------------------------------
(* The patterns the model is run on.                                       *)

WrittenDigits == {DigitChars[i + 1] : i \in 0..MaxDigit}

SingleChars == WrittenDigits \cup {"X", "x", "[", "-", "]", "."}

\* A piece: one character, a well-formed range, or a malformed one (a bound
\* that is no digit, a missing bracket).
Pieces ==
    {<<c>> : c \in SingleChars}
        \cup {<<"[", a, "-", b, "]">> : a \in WrittenDigits, b \in WrittenDigits}
        \cup {<<"[", ".", "-", "1", "]">>, <<"[", "1", "-", ".", "]">>,
              <<"[", "0", "-", "1">>, <<"0", "-", "1", "]">>}

RECURSIVE PatternsOf(_)
PatternsOf(n) ==
    IF n = 0 THEN {<<>>}
    ELSE PatternsOf(n - 1)
             \cup {p \o q : p \in PatternsOf(n - 1), q \in Pieces}

Patterns == PatternsOf(MaxPieces)


\* One generator, on any pattern.
Init ==
    /\ gens \in [{1} -> {NewFrame(tn) : tn \in Patterns}]
    /\ gi = GiIdle
    /\ ipc = IpIdle

Next ==
    \/ \E g \in DOMAIN gens : FirstNext(g)
    \/ \E g \in DOMAIN gens : ResumeNext(g)
    \/ \E g \in DOMAIN gens : ExhaustedNext(g)
    \/ \E g \in DOMAIN gens : Recall(g)

Spec == Init /\ [][Next]_vars

\* Two generators, each on the empty pattern or a pattern of one piece, their
\* requests interleaved in any order.
InitIso ==
    /\ gens \in [{1, 2} -> {NewFrame(tn) : tn \in Pieces \cup {<<>>}}]
    /\ gi = GiIdle
    /\ ipc = IpIdle

SpecIso == InitIso /\ [][Next]_vars

-----------------------------------------------------------------------------
(* The token grammar, stated by position and not by scanning: what the     *)
(* properties of expand_tn are measured against.                           *)

\* A well-formed bracketed range [digit-digit] starts at position i.
IsRangeAt(tn, i) ==
    /\ i >= 1
    /\ i + 4 <= Len(tn)
    /\ tn[i] = "["
    /\ IsDigit(tn[i + 1])
    /\ tn[i + 2] = "-"
    /\ IsDigit(tn[i + 3])
    /\ tn[i + 4] = "]"

\* Position i is one of the two bounds of a well-formed range.
IsRangeBound(tn, i) == IsRangeAt(tn, i - 1) \/ IsRangeAt(tn, i - 3)

\* The positions where a recognized token starts.
TokenStarts(tn) ==
    {i \in 1..Len(tn) :
        \/ IsRangeAt(tn, i)
        \/ (tn[i] = "X" \/ IsDigit(tn[i])) /\ ~IsRangeBound(tn, i)}

\* The k-th of the positions in starts, counting from the left.
KthStart(starts, k) ==
    CHOOSE i \in starts : Cardinality({j \in starts : j < i}) = k - 1

\* The digit-set of the token starting at i: literal d -> {d}, X -> {0..9},
\* [a-b] -> {a..b}.
DigitSet(tn, i) ==
    IF IsRangeAt(tn, i) THEN int(tn[i + 1])..int(tn[i + 3])
    ELSE IF tn[i] = "X" THEN 0..9
    ELSE {int(tn[i])}

\* The digit-sets of the recognized tokens, in token order.
DigitSets(tn) ==
    LET starts == TokenStarts(tn)
    IN  [k \in 1..Cardinality(starts) |-> DigitSet(tn, KthStart(starts, k))]

\* The character positions consumed by matches of the token grammar.
ConsumedPositions(tn) ==
    LET starts == TokenStarts(tn)
    IN  {i \in 1..Len(tn) :
            \E j \in starts :
                IF IsRangeAt(tn, j) THEN i \in j..(j + 4) ELSE i = j}

HasInvertedRange(tn) ==
    \E i \in 1..Len(tn) : IsRangeAt(tn, i) /\ int(tn[i + 1]) > int(tn[i + 3])

RECURSIVE ProdFrom(_, _)
ProdFrom(sizes, i) ==
    IF i > Len(sizes) THEN 1 ELSE sizes[i] * ProdFrom(sizes, i + 1)

\* s comes before t in lexicographic order (strings of digits).
LexLess(s, t) ==
    \/ \E i \in 1..Len(s) :
          /\ i <= Len(t)
          /\ \A j \in 1..(i - 1) : s[j] = t[j]
          /\ int(s[i]) < int(t[i])
    \/ Len(s) < Len(t) /\ \A j \in 1..Len(s) : s[j] = t[j]

\* str is one combination of the digit-sets: one digit of each, in order.
IsCombination(str, sets) ==
    /\ Len(str) = Len(sets)
    /\ \A i \in 1..Len(sets) : IsDigit(str[i]) /\ int(str[i]) \in sets[i]

\* The empty string.
EmptyString == <<>>

-----------------------------------------------------------------------------
(* The claims about expand_tn.                                             *)

\* C1: what a generator has yielded is, at every moment, a strictly ascending
\* (lexicographic) run of combinations of the tokens' digit-sets, each string
\* the concatenation of one digit per token in pattern order; when the
\* generator ends it has yielded as many strings as the Cartesian product
\* holds, so every combination exactly once, the last token varying fastest.
C1_CartesianProductInOrder ==
    \A g \in DOMAIN gens :
        LET f == gens[g]
            sets == DigitSets(f.tn)
        IN  /\ \A k \in 1..Len(f.out) : IsCombination(f.out[k], sets)
            /\ \A k \in 1..(Len(f.out) - 1) : LexLess(f.out[k], f.out[k + 1])
            /\ f.status = "finished" =>
                   Len(f.out) = ProdFrom([i \in 1..Len(sets) |->
                                             Cardinality(sets[i])], 1)

\* C1's case: the pattern [0-2]X has been enumerated to its end, 30 strings.
C1_Witness ==
    \E g \in DOMAIN gens :
        /\ gens[g].tn = <<"[", "0", "-", "2", "]", "X">>
        /\ gens[g].status = "finished"
        /\ Len(gens[g].out) = 30
        /\ gens[g].out[11] = <<"1", "0">>

\* The size the count property gives a token: 1 for a literal digit, 10 for X,
\* b-a+1 for [a-b].
ClaimedSize(tn, i) ==
    IF IsRangeAt(tn, i) THEN int(tn[i + 3]) - int(tn[i + 1]) + 1
    ELSE IF tn[i] = "X" THEN 10
    ELSE 1

\* The same, with 0 for a range whose bounds are inverted.
ActualSize(tn, i) ==
    IF IsRangeAt(tn, i) /\ int(tn[i + 1]) > int(tn[i + 3]) THEN 0
    ELSE ClaimedSize(tn, i)

\* C2 as stated: a generator that has ended has yielded as many strings as the
\* product of 1 per literal digit, 10 per X and b-a+1 per range [a-b].
C2_CountAsClaimed ==
    \A g \in DOMAIN gens :
        LET tn == gens[g].tn
            starts == TokenStarts(tn)
        IN  gens[g].status = "finished" =>
                Len(gens[g].out) =
                    ProdFrom([k \in 1..Cardinality(starts) |->
                                 ClaimedSize(tn, KthStart(starts, k))], 1)

\* C2 amended: a generator that has ended has yielded as many strings as the
\* product of 1 per literal digit, 10 per X, b-a+1 per range [a-b] with
\* a <= b, and 0 per range with a > b.
C2_CountOfYielded ==
    \A g \in DOMAIN gens :
        LET tn == gens[g].tn
            starts == TokenStarts(tn)
        IN  gens[g].status = "finished" =>
                Len(gens[g].out) =
                    ProdFrom([k \in 1..Cardinality(starts) |->
                                 ActualSize(tn, KthStart(starts, k))], 1)

\* C2's case: a range of three digits and a wildcard, enumerated to the end.
C2_Witness ==
    \E g \in DOMAIN gens :
        /\ gens[g].tn = <<"X", "[", "0", "-", "2", "]">>
        /\ gens[g].status = "finished"
        /\ Len(gens[g].out) = 30

\* C3: once the body has parsed the pattern, ranges holds exactly one entry
\* per recognized token, in token order, each the ascending list of the
\* token's digit-set; a character outside every token adds no entry.
C3_TokenizationSkipsStrays ==
    \A g \in DOMAIN gens :
        LET f == gens[g]
            sets == DigitSets(f.tn)
        IN  f.status # "created" =>
                /\ Len(f.ranges) = Len(sets)
                /\ \A k \in 1..Len(sets) :
                      /\ Len(f.ranges[k]) = Cardinality(sets[k])
                      /\ {f.ranges[k][j] : j \in 1..Len(f.ranges[k])} = sets[k]
                      /\ \A j \in 1..(Len(f.ranges[k]) - 1) :
                            f.ranges[k][j] < f.ranges[k][j + 1]

\* C3's case: a malformed bracket form ([.-1], of which only the 1 is a token)
\* followed by a lowercase x has been parsed.
C3_Witness ==
    \E g \in DOMAIN gens :
        /\ gens[g].tn = <<"[", ".", "-", "1", "]", "x">>
        /\ gens[g].status = "suspended"
        /\ gens[g].ranges = << <<1>> >>

\* C4: on a pattern with no recognizable token the first request yields the
\* empty string and nothing else is ever yielded: the generator then ends.
C4_NoTokenYieldsOneEmptyString ==
    \A g \in DOMAIN gens :
        LET f == gens[g]
        IN  TokenStarts(f.tn) = {} =>
                /\ f.status = "created" => f.out = <<>>
                /\ f.status = "suspended" =>
                       f.out = <<EmptyString>> /\ f.last = Yielded(EmptyString)
                /\ f.status = "finished" =>
                       f.out = <<EmptyString>> /\ f.last = StopIteration

\* C4's case: a pattern of stray characters only has been run to its end.
C4_Witness ==
    \E g \in DOMAIN gens :
        /\ gens[g].tn = <<"[", "-">>
        /\ gens[g].status = "finished"
        /\ gens[g].out = <<EmptyString>>

\* C5: a generator that has ended stays ended: whatever is asked of it later,
\* it gives the end-of-sequence signal and yields nothing more; the only other
\* step from there is another call of expand_tn, which gives a new generator
\* that has not run yet.
C5_NotRestartable ==
    [][\A g \in DOMAIN gens :
          gens[g].status = "finished" =>
              \/ /\ gens'[g].status = "finished"
                 /\ gens'[g].last = StopIteration
                 /\ gens'[g].out = gens[g].out
              \/ gens'[g] = NewFrame(gens[g].tn)]_vars

\* C5's case: a generator that yielded strings was asked twice more after
\* its end.
C5_Witness ==
    \E g \in DOMAIN gens :
        /\ gens[g].status = "finished"
        /\ gens[g].late = 2
        /\ Len(gens[g].out) = 10
        /\ gens[g].last = StopIteration

\* What one uninterrupted invocation on tn yields, from first request to end.
RECURSIVE SoloFrom(_, _)
SoloFrom(ranges, p) ==
    IF p.stopped THEN <<>>
    ELSE <<single_expanded_number(ProductTuple(ranges, p.indices))>>
             \o SoloFrom(ranges, ProductNext(ranges, p.indices))

Solo(tn) ==
    LET ranges == ParseLoop(<<>>, finditer(tn), 1)
    IN  SoloFrom(ranges, ProductFirst(ranges))

\* C6: with two generators whose requests interleave in any order, what each
\* has yielded is always the beginning of what an uninterrupted invocation on
\* its pattern yields, and all of it once the generator has ended; two ended
\* generators on the same pattern have yielded the same strings.
C6_InvocationsIsolated ==
    /\ \A g \in DOMAIN gens :
          LET f == gens[g]
              solo == Solo(f.tn)
          IN  /\ Len(f.out) <= Len(solo)
              /\ f.out = SubSeq(solo, 1, Len(f.out))
              /\ f.status = "finished" => f.out = solo
    /\ \A g, h \in DOMAIN gens :
          (/\ gens[g].tn = gens[h].tn
           /\ gens[g].status = "finished"
           /\ gens[h].status = "finished") => gens[g].out = gens[h].out

\* C6's case: one generator abandoned part-way through X while the other, on
\* [0-1], has run to its end.
C6_Witness ==
    /\ DOMAIN gens = {1, 2}
    /\ gens[1].tn = <<"X">>
    /\ gens[1].status = "suspended"
    /\ Len(gens[1].out) = 4
    /\ gens[2].tn = <<"[", "0", "-", "1", "]">>
    /\ gens[2].status = "finished"
    /\ gens[2].late = 1

\* C7 as stated: the number of position specs built equals the number of
\* character positions the matches consumed.
C7_SpecsEqualConsumedPositions ==
    \A g \in DOMAIN gens :
        gens[g].status # "created" =>
            Len(gens[g].ranges) = Cardinality(ConsumedPositions(gens[g].tn))

\* C7 amended: the number of position specs built equals the number of
\* matches of the token grammar, which is the number of character positions
\* consumed less four for every bracketed range (a range consumes five
\* positions and builds one spec).
C7_SpecsEqualMatches ==
    \A g \in DOMAIN gens :
        LET tn == gens[g].tn
        IN  gens[g].status # "created" =>
                /\ Len(gens[g].ranges) = Cardinality(TokenStarts(tn))
                /\ Len(gens[g].ranges) =
                       Cardinality(ConsumedPositions(tn))
                           - 4 * Cardinality({i \in TokenStarts(tn) :
                                                 IsRangeAt(tn, i)})

\* C7's case: a range and a literal digit parsed: two specs, six positions.
C7_Witness ==
    \E g \in DOMAIN gens :
        /\ gens[g].tn = <<"[", "1", "-", "2", "]", "0">>
        /\ gens[g].status # "created"
        /\ Len(gens[g].ranges) = 2
        /\ Cardinality(ConsumedPositions(gens[g].tn)) = 6

\* C10: a generator on a pattern holding a well-formed range with inverted
\* bounds never yields anything: its first request gives the end-of-sequence
\* signal.
C10_InvertedRangeYieldsNothing ==
    \A g \in DOMAIN gens :
        LET f == gens[g]
        IN  HasInvertedRange(f.tn) =>
                /\ f.out = <<>>
                /\ f.status # "suspended"
                /\ f.status = "finished" => f.last = StopIteration

\* C10's case: X[2-1] was asked for its first element and ended.
C10_Witness ==
    \E g \in DOMAIN gens :
        /\ gens[g].tn = <<"X", "[", "2", "-", "1", "]">>
        /\ gens[g].status = "finished"
        /\ gens[g].out = <<>>

-----------------------------------------------------------------------------
(* get_input: the prompt loop.                                             *)

\* The user enters at most MaxInputs lines in one call.
MaxInputs == 3

\* Python values: None, a str, a set of str.
PyNone == [kind |-> "None", s |-> "", xs |-> {}]
PyStr(u) == [kind |-> "str", s |-> u, xs |-> {}]
PySet(xs) == [kind |-> "set", s |-> "", xs |-> xs]

\* What the user may type; "" is the empty line.
Lines == {"", "a", "b"}

\* check_function: None, or a callable, given by the lines it returns true on.
NoCheck == [given |-> FALSE, accepts |-> {}]
CheckFunctions ==
    {NoCheck} \cup {[given |-> TRUE, accepts |-> A] : A \in SUBSET Lines}

name == "name"

\* check_function is not None and check_function(user_input)
CheckedAlways(check_function, user_input) == check_function.given

Checked(check_function, user_input) ==
    check_function.given /\ user_input \in check_function.accepts

\* temp after the if/else of the loop body has stored user_input.
Store(st, user_input) ==
    IF st.return_iterable
    THEN PySet(st.temp.xs \cup {user_input})
    ELSE PyStr(user_input)

\* return_dict.update({name : temp}); return return_dict
Return(st, temp) ==
    [st EXCEPT !.pc = "returned", !.temp = temp,
               !.return_dict = [n \in {name} |-> temp]]

\* One turn of `while user_input := input(prompt)` with the line the user
\* enters, the return included when the loop ends on it.
LoopTurn(st, user_input) ==
    LET st1 == [st EXCEPT !.entered = Append(@, user_input)]
    IN  IF user_input = ""
        THEN Return(st1, st1.temp)
        ELSE IF Checked(st.check_function, user_input)
        THEN IF st.return_iterable
             THEN [st1 EXCEPT !.temp = Store(st, user_input)]
             ELSE Return(st1, Store(st, user_input))
        ELSE LET st2 == [st1 EXCEPT !.helps = @ + 1]
             IN  IF ~st.check_function.given
                 THEN IF st.return_iterable
                      THEN [st2 EXCEPT !.temp = Store(st, user_input)]
                      ELSE Return(st2, Store(st, user_input))
                 ELSE st2

\* get_input(name, return_iterable, check_function = ...) up to its first
\* input(prompt).
GetInputCalled(return_iterable, check_function) ==
    [pc |-> "input", return_iterable |-> return_iterable,
     check_function |-> check_function,
     temp |-> IF return_iterable THEN PySet({}) ELSE PyNone,
     entered |-> <<>>, helps |-> 0,
     return_dict |-> [n \in {} |-> PyNone]]

InputLine(user_input) ==
    /\ gi.pc = "input"
    /\ Len(gi.entered) < MaxInputs
    /\ gi' = LoopTurn(gi, user_input)
    /\ UNCHANGED <<gens, ipc>>

InitInput ==
    /\ gi \in {GetInputCalled(it, cf) : it \in BOOLEAN, cf \in CheckFunctions}
    /\ gens = NoGens
    /\ ipc = IpIdle

NextInput == \E user_input \in Lines : InputLine(user_input)

SpecInput == InitInput /\ [][NextInput]_vars

\* The line entered last.
LastLine == gi.entered[Len(gi.entered)]

-----------------------------------------------------------------------------
(* ip_in_range and ip_version.                                             *)
(*                                                                         *)
(* An address is the set of the positions of its one-bits, position 1 the  *)
(* most significant; a network is its network address and prefix length.   *)
(* A string is given by what it spells: an IPv4 or IPv6 address, with a    *)
(* /prefix or without (prefixlen -1), or neither ("junk").                 *)

IPV4LENGTH == 32
IPV6LENGTH == 128

Width(version) == IF version = 4 THEN IPV4LENGTH ELSE IPV6LENGTH

IPAddress(version, bits) ==
    [type |-> "Address", version |-> version, bits |-> bits, prefixlen |-> -1]
IPNetwork(version, bits, prefixlen) ==
    [type |-> "Network", version |-> version, bits |-> bits,
     prefixlen |-> prefixlen]
IPString(version, bits, prefixlen) ==
    [type |-> "str", version |-> version, bits |-> bits, prefixlen |-> prefixlen]
JunkString == [type |-> "str", version |-> 0, bits |-> {}, prefixlen |-> -1]
NoneValue == [type |-> "NoneType", version |-> 0, bits |-> {}, prefixlen |-> -1]

\* ipaddress.IPv4Network(ip) / ipaddress.IPv6Network(ip) on a string: a string
\* without a prefix is the one-address network; host bits set under the given
\* prefix, or a string of the other version, raise (shown as NoneValue).
NetworkOfString(version, ip) ==
    IF ip.version # version THEN NoneValue
    ELSE IF ip.prefixlen = -1 THEN IPNetwork(version, ip.bits, Width(version))
    ELSE IF \A b \in ip.bits : b <= ip.prefixlen
    THEN IPNetwork(version, ip.bits, ip.prefixlen)
    ELSE NoneValue

ip_version(ip) ==
    IF NetworkOfString(4, ip) # NoneValue THEN NetworkOfString(4, ip)
    ELSE IF NetworkOfString(6, ip) # NoneValue THEN NetworkOfString(6, ip)
    ELSE NoneValue

\* int(ip) & int(range.netmask)
MaskedBits(ip, range) == {b \in ip.bits : b <= range.prefixlen}

\* ip_in_range(ip, range): "True", "False", "None", or the exception raised.
ip_in_range(ip0, range0) ==
    LET parsed == IF ip0.type = "str" THEN ip_version(ip0) ELSE ip0
        raised == ip0.type = "str" /\ parsed = NoneValue
        ip == IF ip0.type = "str" /\ ~raised /\ parsed.prefixlen = 32
              THEN IPAddress(parsed.version, parsed.bits)
              ELSE parsed
        range == IF range0.type = "str" THEN ip_version(range0) ELSE range0
        matched == /\ ip.type = "Address"
                   /\ range.type = "Network"
                   /\ ip.version = range.version
    IN  IF raised THEN "AttributeError"
        ELSE IF ~matched THEN "None"
        ELSE IF MaskedBits(ip, range) = range.bits THEN "True"
        ELSE "False"

\* The addresses and networks the model is run on.
TestBits(version) == IF version = 4 THEN {1, 24, 32} ELSE {1, 32, 128}
TestPrefixes(version) == IF version = 4 THEN {0, 8, 24, 32} ELSE {0, 32, 64, 128}

Addresses ==
    UNION {{IPAddress(v, bits) : bits \in SUBSET TestBits(v)} : v \in {4, 6}}

Networks ==
    UNION {UNION {{IPNetwork(v, bits, p) :
                      bits \in SUBSET {b \in TestBits(v) : b <= p}} :
                     p \in TestPrefixes(v)} : v \in {4, 6}}

\* Strings: every address, every address with a prefix (a network, or host
\* bits set under the prefix), junk.
Strings ==
    {IPString(a.version, a.bits, -1) : a \in Addresses}
        \cup UNION {{IPString(a.version, a.bits, p) : p \in TestPrefixes(a.version)} :
                       a \in Addresses}
        \cup {JunkString}

IpCalled(ip, range) == [pc |-> "called", ip |-> ip, range |-> range, result |-> ""]

IpInRangeReturns ==
    /\ ipc.pc = "called"
    /\ ipc' = [ipc EXCEPT !.pc = "done", !.result = ip_in_range(ipc.ip, ipc.range)]
    /\ UNCHANGED <<gens, gi>>

InitIp ==
    /\ ipc \in {IpCalled(ip, range) :
                   ip \in Addresses \cup Strings, range \in Networks \cup Strings}
    /\ gens = NoGens
    /\ gi = GiIdle

NextIp == IpInRangeReturns

SpecIp == InitIp /\ [][NextIp]_vars

\* The address or network an argument stands for, when it is a well-formed one.
IsAddressArg(ip) ==
    ip.type = "Address" \/ (ip.type = "str" /\ ip.version # 0 /\ ip.prefixlen = -1)
IsNetworkArg(range) ==
    \/ range.type = "Network"
    \/ /\ range.type = "str"
       /\ range.version # 0
       /\ range.prefixlen # -1
       /\ \A b \in range.bits : b <= range.prefixlen

\* C9: for an address (object or string) and a network (object or string),
\* ip_in_range gives None exactly when their IP versions differ, and otherwise
\* True when the address lies in the network and False when it does not.
C9_TriState ==
    (ipc.pc = "done" /\ IsAddressArg(ipc.ip) /\ IsNetworkArg(ipc.range)) =>
        ipc.result =
            IF ipc.ip.version # ipc.range.version THEN "None"
            ELSE IF {b \in ipc.ip.bits : b <= ipc.range.prefixlen} = ipc.range.bits
            THEN "True"
            ELSE "False"

=============================================================================
